---- MODULE Spec2Model ----
(***************************************************************************)
(* FBR e-invoicing: the submission queue and retry pipeline of             *)
(* fbr_core/fbr_service.py (FBRQueueManager, FBRSubmissionService,         *)
(* CompanySpecificFBRValidator) together with the background worker of     *)
(* gui/main_window.py (FBRProcessingThread).                               *)
(*                                                                         *)
(* Modelling notes                                                         *)
(*  - FBRQueueManager.__init__ names CompanySpecificFBRSubmissionService,  *)
(*    a class the module never defines; the model reads it as the          *)
(*    FBRSubmissionService defined in the same file.                       *)
(*  - DatabaseManager.get_session returns one shared Session, so every     *)
(*    manager and thread sees the same rows; the store is one copy of      *)
(*    each table.  Database calls are taken to succeed.                    *)
(*  - A process_queue batch is split at its blocking points: the candidate *)
(*    query, the mark-Processing commit, the call of submit_invoice up to  *)
(*    the HTTP POST, the HTTP response, and the outcome commit.            *)
(*  - Timestamps are seconds; NoTime stands for a NULL DateTime, the empty *)
(*    sequence for a NULL Text.  A text is a sequence of tokens.           *)
(*  - An exception that leaves a function is the value Raised(message) in  *)
(*    place of the function's return value; a try/except of the code is    *)
(*    the IsRaised test of the operator that models it.                    *)
(*  - build_sales_invoice_payload raises only for an invoice that does not *)
(*    exist: posting_date, hs_code, uom, quantity and total_value are NOT  *)
(*    NULL columns.  submit_invoice runs the validator first, which turns  *)
(*    a missing invoice into a validation error.                           *)
(*  - Database commits fail only in DirectHttpRollback (SpecService) and    *)
(*    in ItemException / ItemExceptionAbort (SpecFaults, SpecRetry), where *)
(*    the mark-Processing commit of process_queue raises, and in           *)
(*    OutcomeExceptionAbort (SpecFaults), where its outcome commit raises. *)
(*  - BatchStops (SpecRecover) is the end of the process in the middle of  *)
(*    a batch: the worker is a thread of the GUI process.                  *)
(*  - submissions is a history variable: for every queue id the number of  *)
(*    calls of submit_invoice that process_queue has made for that item.   *)
(*  - company is what the query for the companies row with ntn_cnic =      *)
(*    company_id returns: the row, or NoCompany.                           *)
(***************************************************************************)
EXTENDS Integers, Sequences, FiniteSets, Bags, TLC

VARIABLES queue, next_id, invoices, company, settings, fbr_logs, now, threads, gui,
          submissions

vars == <<queue, next_id, invoices, company, settings, fbr_logs, now, threads, gui,
          submissions>>

(* ------------------------------ bounds --------------------------------- *)

\* queue rows ever inserted
MaxRows == 2
\* cap of retry_count under repeated duplicate enqueues
MaxRetryCount == 5
\* the clock stops here
MaxNow == 120
\* seconds per clock tick
TickSeconds == 60
\* HTTP calls are made while fewer SubmissionLog rows than this exist
MaxLogs == 5
\* line items of an invoice drawn for the validator and the payload builder
MaxItems == 2

(* --------------------------- program constants ------------------------- *)

DefaultMaxRetries == 5
DefaultPriority == 5
DefaultLimit == 50
BackoffBase == 30
BackoffCap == 300
ManualRetrySeconds == 300
SecondsPerDay == 86400

NoTime == -1
NoRate == -1
NoInvoice == 0

CompanyId == "1234567890123"
\* the ntn_cnic of another company in the same database
OtherCompanyId == "9999999999999"
Workers == {1, 2}
Docs == {1, 2}
DocumentTypes == {"Sales Invoice"}
Priorities == {DefaultPriority}
Limits == {1, DefaultLimit}
RetryThresholds == {3, 10}
OlderThanDays == {0, 7}
GatewayOutcomes == {"Valid", "Invalid", "Timeout"}
\* priorities given to add_to_queue where the order of the batch matters
QueuePriorities == {1, DefaultPriority}
ValidationOutcomes == GatewayOutcomes \cup {"Undecodable"}
\* JSON bodies of a 200 answer outside the documented ones: no
\* validationResponse object, a validationResponse with another status string
UnexpectedBodies == {"NoValidation", "Accepted"}
\* an invoice id that no row of sales_invoices has
MissingInvoice == 3
ServiceDocs == Docs \cup {MissingInvoice}

Min(a, b) == IF a <= b THEN a ELSE b

RECURSIVE Pow2(_)
Pow2(n) == IF n <= 0 THEN 1 ELSE 2 * Pow2(n - 1)

RECURSIVE JoinErrors(_)
\* '; '.join(errors)
JoinErrors(errors) ==
  IF Len(errors) = 0 THEN <<>>
  ELSE IF Len(errors) = 1 THEN errors
  ELSE <<Head(errors), "; ">> \o JoinErrors(Tail(errors))

(* ------------------------------ validator ------------------------------ *)

\* the companies table: the row whose ntn_cnic is the manager's company_id
Company == [ntn_cnic |-> CompanyId, name |-> "Acme Traders"]
\* the companies table has no row for the manager's company_id
NoCompany == [missing |-> TRUE]
HasCompany == "ntn_cnic" \in DOMAIN company

GoodItem == [item_name |-> "Widget", hs_code |-> "9999.0000", uom |-> "PCS",
             quantity |-> 2, total_value |-> 1180, tax_rate |-> 18, discount |-> 0]

NewInvoice(province, items) ==
  [company_id |-> CompanyId, buyer_name |-> "Buyer", buyer_ntn_cnic |-> "9876543210987",
   buyer_type |-> "Registered", buyer_province |-> province,
   sale_origination_province |-> "Sindh", date_offset_days |-> 0, items |-> items,
   status |-> "Draft", fbr_status |-> "", fbr_invoice_number |-> "", fbr_datetime |-> NoTime]

RECURSIVE ItemErrors(_, _)
\* the loop of _validate_invoice_items from item idx on
ItemErrors(items, idx) ==
  IF idx > Len(items) THEN [raised |-> FALSE, errors |-> <<>>]
  ELSE
    LET item == items[idx]
        e1 == IF item.hs_code = "" THEN <<"HS Code is required">> ELSE <<>>
        e2 == IF item.uom = "" THEN <<"UoM is required">> ELSE <<>>
        e3 == IF item.quantity <= 0 THEN <<"Quantity must be greater than 0">> ELSE <<>>
        e4 == IF item.total_value <= 0 THEN <<"Total value must be greater than 0">> ELSE <<>>
    IN IF item.tax_rate = NoRate
       THEN [raised |-> TRUE, errors |-> <<>>]
       ELSE LET rest == ItemErrors(items, idx + 1)
            IN [raised |-> rest.raised,
                errors |-> IF rest.raised THEN <<>> ELSE e1 \o e2 \o e3 \o e4 \o rest.errors]

\* mutant: an invoice without line items passes the item checks
_validate_invoice_items_allows_none(items) == ItemErrors(items, 1)

_validate_invoice_items(items) ==
  IF Len(items) = 0
  THEN [raised |-> FALSE, errors |-> <<"At least one item is required for FBR submission">>]
  ELSE ItemErrors(items, 1)

validate_invoice(invoice_id) ==
  IF invoice_id \notin DOMAIN invoices \/ invoices[invoice_id].company_id # CompanyId
  THEN [valid |-> FALSE, errors |-> <<"Invoice not found">>, warnings |-> <<>>]
  ELSE
    LET invoice == invoices[invoice_id]
        e1 == IF invoice.buyer_province = ""
              THEN <<"Buyer Province is required for FBR submission">> ELSE <<>>
        e2 == IF invoice.sale_origination_province = ""
              THEN <<"Sale Origination Province is required for FBR submission">> ELSE <<>>
        e3 == IF ~HasCompany THEN <<"Company information not found">>
              ELSE (IF company.ntn_cnic = ""
                    THEN <<"Company NTN/CNIC is required for FBR submission">> ELSE <<>>)
                   \o (IF company.name = ""
                       THEN <<"Company name is required for FBR submission">> ELSE <<>>)
        w1 == IF invoice.date_offset_days > 3 \/ invoice.date_offset_days < -3
              THEN <<"Invoice date should be close to current date">> ELSE <<>>
        w2 == IF invoice.buyer_ntn_cnic = "" /\ invoice.buyer_type = "Registered"
              THEN <<"Buyer NTN/CNIC missing for registered buyer">> ELSE <<>>
        e4 == IF invoice.buyer_name = ""
              THEN <<"Buyer name is required for FBR submission">> ELSE <<>>
        it == _validate_invoice_items(invoice.items)
        e5 == IF it.raised THEN <<"Validation error: name 'warnings' is not defined">>
              ELSE it.errors
        errors == e1 \o e2 \o e3 \o e4 \o e5
    IN [valid |-> Len(errors) = 0, errors |-> errors, warnings |-> w1 \o w2]

(* --------------------------- submission service ------------------------ *)

Success(response) == [success |-> TRUE, error |-> "", errors |-> <<>>, response |-> response]
Failure(error, errors) == [success |-> FALSE, error |-> error, errors |-> errors, response |-> ""]
NoResult == Failure("", <<>>)

\* what requests.post(...).json() hands back for a gateway outcome
\* (has_validation: the body carries a validationResponse object)
GatewayResponse(outcome, invoice_id) ==
  IF outcome = "NoValidation"
  THEN [has_validation |-> FALSE, status |-> "", invoiceNumber |-> ""]
  ELSE [has_validation |-> TRUE, status |-> outcome,
        invoiceNumber |-> IF outcome = "Valid" THEN "FBR" ELSE ""]

\* mutant: submit_invoice does not run the validator
submit_invoice_begin_unvalidated(invoice_id) ==
  IF settings = "absent" \/ settings = "no_endpoint"
  THEN [post |-> FALSE,
        result |-> Failure("FBR API settings not configured for this company", <<>>)]
  ELSE [post |-> TRUE, result |-> NoResult]

\* submit_invoice up to the HTTP POST: a result returned early, or "post"
submit_invoice_begin(invoice_id) ==
  LET validation_result == validate_invoice(invoice_id)
  IN IF ~validation_result.valid
     THEN [post |-> FALSE, result |-> Failure("Validation failed", validation_result.errors)]
     ELSE IF settings = "absent" \/ settings = "no_endpoint"
     THEN [post |-> FALSE,
           result |-> Failure("FBR API settings not configured for this company", <<>>)]
     ELSE [post |-> TRUE, result |-> NoResult]

\* mutant: every answered submission advances the invoice to Submitted
_update_invoice_with_response_always_submitted(invoice_id, response) ==
  IF invoice_id \in DOMAIN invoices /\ invoices[invoice_id].company_id = CompanyId
  THEN LET fbr_status == IF response.has_validation THEN response.status ELSE "Unknown"
       IN [invoices EXCEPT ![invoice_id] =
             [@ EXCEPT !.fbr_invoice_number = response.invoiceNumber,
                       !.fbr_datetime = now,
                       !.fbr_status = fbr_status,
                       !.status = "Submitted"]]
  ELSE invoices

_update_invoice_with_response(invoice_id, response) ==
  IF invoice_id \in DOMAIN invoices /\ invoices[invoice_id].company_id = CompanyId
  THEN LET fbr_status == IF response.has_validation THEN response.status ELSE "Unknown"
       IN [invoices EXCEPT ![invoice_id] =
             [@ EXCEPT !.fbr_invoice_number = response.invoiceNumber,
                       !.fbr_datetime = now,
                       !.fbr_status = fbr_status,
                       !.status = IF fbr_status = "Valid" THEN "Submitted" ELSE "Failed"]]
  ELSE invoices

LogStatus(response, is_error) ==
  IF is_error THEN "Error"
  ELSE IF response.has_validation THEN response.status
  ELSE "Success"

_log_submission(invoice_id, document_type, status) ==
  fbr_logs (+) SetToBag({[company_id |-> CompanyId, document_type |-> document_type,
                          document_id |-> invoice_id, status |-> status]})

\* an exception leaving a function, in place of the value it would return
Raised(message) == [raised |-> TRUE, message |-> message]
IsRaised(value) == "raised" \in DOMAIN value

\* _submit_to_fbr_api: the parsed JSON body, or the exception of a request that
\* timed out or of a body that is not JSON
_submit_to_fbr_api(outcome, invoice_id) ==
  IF outcome = "Timeout" THEN Raised("FBR API request failed")
  ELSE IF outcome = "Undecodable" THEN Raised("FBR API request failed: Expecting value")
  ELSE GatewayResponse(outcome, invoice_id)

\* mutant: a gateway rejection is reported to the caller as a failure
submit_invoice_end_rejection_fails(invoice_id, outcome) ==
  LET response == _submit_to_fbr_api(outcome, invoice_id)
  IN IF IsRaised(response)
     THEN [result |-> Failure(response.message, <<>>),
           invoices |-> invoices,
           fbr_logs |-> _log_submission(invoice_id, "Sales Invoice", "Error")]
     ELSE [result |-> IF response.status = "Valid" THEN Success(response.status)
                      ELSE Failure(response.status, <<>>),
           invoices |-> _update_invoice_with_response(invoice_id, response),
           fbr_logs |-> _log_submission(invoice_id, "Sales Invoice",
                                        LogStatus(response, FALSE))]

\* mutant: a failed request marks the invoice Failed
submit_invoice_end_marks_failed(invoice_id, outcome) ==
  LET response == _submit_to_fbr_api(outcome, invoice_id)
  IN IF IsRaised(response)
     THEN [result |-> Failure(response.message, <<>>),
           invoices |-> [invoices EXCEPT ![invoice_id].status = "Failed",
                                         ![invoice_id].fbr_status = "Error"],
           fbr_logs |-> _log_submission(invoice_id, "Sales Invoice", "Error")]
     ELSE [result |-> Success(response.status),
           invoices |-> _update_invoice_with_response(invoice_id, response),
           fbr_logs |-> _log_submission(invoice_id, "Sales Invoice",
                                        LogStatus(response, FALSE))]

\* mutant: submit_invoice has no except clause
submit_invoice_end_no_handler(invoice_id, outcome) ==
  LET response == _submit_to_fbr_api(outcome, invoice_id)
  IN IF IsRaised(response)
     THEN [result |-> response, invoices |-> invoices, fbr_logs |-> fbr_logs]
     ELSE [result |-> Success(response.status),
           invoices |-> _update_invoice_with_response(invoice_id, response),
           fbr_logs |-> _log_submission(invoice_id, "Sales Invoice",
                                        LogStatus(response, FALSE))]

\* mutant: the except clause of submit_invoice writes no log row
submit_invoice_end_silent(invoice_id, outcome) ==
  LET response == _submit_to_fbr_api(outcome, invoice_id)
  IN IF IsRaised(response)
     THEN [result |-> Failure(response.message, <<>>),
           invoices |-> invoices, fbr_logs |-> fbr_logs]
     ELSE [result |-> Success(response.status),
           invoices |-> _update_invoice_with_response(invoice_id, response),
           fbr_logs |-> _log_submission(invoice_id, "Sales Invoice",
                                        LogStatus(response, FALSE))]

\* submit_invoice from the HTTP response on: the except clause turns the
\* exception of _submit_to_fbr_api into a log row and a failure result
submit_invoice_end(invoice_id, outcome) ==
  LET response == _submit_to_fbr_api(outcome, invoice_id)
  IN IF IsRaised(response)
     THEN [result |-> Failure(response.message, <<>>),
           invoices |-> invoices,
           fbr_logs |-> _log_submission(invoice_id, "Sales Invoice", "Error")]
     ELSE [result |-> Success(response.status),
           invoices |-> _update_invoice_with_response(invoice_id, response),
           fbr_logs |-> _log_submission(invoice_id, "Sales Invoice",
                                        LogStatus(response, FALSE))]

\* submit_invoice when the gateway answered but every commit of the session
\* fails: _update_invoice_with_response and _log_submission roll back
submit_invoice_end_rollback(invoice_id, outcome) ==
  LET response == _submit_to_fbr_api(outcome, invoice_id)
  IN IF IsRaised(response)
     THEN [result |-> Failure(response.message, <<>>),
           invoices |-> invoices, fbr_logs |-> fbr_logs]
     ELSE [result |-> Success(response.status),
           invoices |-> invoices, fbr_logs |-> fbr_logs]

\* build_sales_invoice_payload: the payload, or the exception it raises
build_sales_invoice_payload(invoice_id) ==
  IF invoice_id \notin DOMAIN invoices \/ invoices[invoice_id].company_id # CompanyId
  THEN Raised("Error building payload: Invoice not found")
  ELSE IF ~HasCompany
  THEN Raised("Error building payload: Company not found")
  ELSE LET invoice == invoices[invoice_id]
       IN [invoice_id |-> invoice_id,
           sellerNTNCNIC |-> company.ntn_cnic,
           buyerNTNCNIC |-> invoice.buyer_ntn_cnic,
           buyerRegistrationType |-> IF invoice.buyer_type # "" THEN invoice.buyer_type
                                     ELSE "Unregistered",
           items |-> [i \in 1..Len(invoice.items) |->
                        [hsCode |-> invoice.items[i].hs_code,
                         uoM |-> invoice.items[i].uom,
                         quantity |-> invoice.items[i].quantity,
                         totalValues |-> invoice.items[i].total_value,
                         discount |-> invoice.items[i].discount]]]

\* validate_invoice_with_fbr up to the HTTP POST
validate_invoice_with_fbr_begin(invoice_id) ==
  LET payload == build_sales_invoice_payload(invoice_id)
  IN IF IsRaised(payload)
     THEN [post |-> FALSE,
           result |-> Failure("Validation failed: Error building payload", <<>>)]
     ELSE IF settings = "absent"
     THEN [post |-> FALSE,
           result |-> Failure("FBR API settings not configured for this company", <<>>)]
     ELSE [post |-> TRUE, result |-> NoResult]

\* validate_invoice_with_fbr from the HTTP response on: requests.post,
\* raise_for_status and json() as in _submit_to_fbr_api; both except clauses
\* return a failure without a log row
validate_invoice_with_fbr_end(invoice_id, outcome) ==
  LET response == _submit_to_fbr_api(outcome, invoice_id)
  IN IF IsRaised(response)
     THEN [result |-> Failure(response.message, <<>>),
           invoices |-> invoices, fbr_logs |-> fbr_logs]
     ELSE [result |-> Success(response.status),
           invoices |-> invoices,
           fbr_logs |-> _log_submission(invoice_id, "Sales Invoice Validation",
                                        "Validation")]

(* ------------------------------ queue manager -------------------------- *)

Row(id) == CHOOSE r \in queue : r.id = id
HasRow(id) == \E r \in queue : r.id = id
SetRow(id, new) == (queue \ {Row(id)}) \cup {new}

FBRQueue(id, document_type, document_id, priority) ==
  [id |-> id, company_id |-> CompanyId, document_type |-> document_type,
   document_id |-> document_id, status |-> "Pending", priority |-> priority,
   retry_count |-> 0, max_retries |-> DefaultMaxRetries, error_message |-> <<>>,
   created_at |-> now, last_retry_at |-> NoTime, completed_at |-> NoTime,
   next_retry_at |-> NoTime]

\* mutant: the check for an existing Pending row is left out
add_to_queue_no_check(document_type, document_id, priority) ==
  /\ next_id <= MaxRows
  /\ queue' = queue \cup {FBRQueue(next_id, document_type, document_id, priority)}
  /\ next_id' = next_id + 1

add_to_queue(document_type, document_id, priority) ==
  LET matches == {r \in queue : /\ r.company_id = CompanyId
                                /\ r.document_type = document_type
                                /\ r.document_id = document_id
                                /\ r.status = "Pending"}
  IN IF matches # {}
     THEN /\ \E existing \in matches :
               /\ existing.retry_count < MaxRetryCount
               /\ queue' = (queue \ {existing}) \cup
                    {[existing EXCEPT !.retry_count = @ + 1,
                                      !.last_retry_at = now,
                                      !.priority = Min(@, priority)]}
          /\ UNCHANGED next_id
     ELSE /\ next_id <= MaxRows
          /\ queue' = queue \cup {FBRQueue(next_id, document_type, document_id, priority)}
          /\ next_id' = next_id + 1

AddToQueue(docs) ==
  /\ \E document_type \in DocumentTypes, document_id \in docs, priority \in Priorities :
        add_to_queue(document_type, document_id, priority)
  /\ UNCHANGED <<company, submissions, invoices, settings, fbr_logs, now, threads, gui>>

\* add_to_queue for a document that has no queue row of the company yet
AddFresh(docs) ==
  /\ \E document_type \in DocumentTypes, document_id \in docs, priority \in Priorities :
        /\ \A r \in queue : r.company_id = CompanyId => r.document_id # document_id
        /\ add_to_queue(document_type, document_id, priority)
  /\ UNCHANGED <<company, submissions, invoices, settings, fbr_logs, now, threads, gui>>

\* add_to_queue called again for a document whose queue row is still Pending
AddAgain(docs, priorities) ==
  /\ \E document_type \in DocumentTypes, document_id \in docs, priority \in priorities :
        /\ \E r \in queue : r.document_id = document_id /\ r.status = "Pending"
        /\ add_to_queue(document_type, document_id, priority)
  /\ UNCHANGED <<company, submissions, invoices, settings, fbr_logs, now, threads, gui>>

\* add_to_queue with a priority of the caller's choice, for a document that has
\* no queue row yet
AddFreshAt(docs, priorities) ==
  /\ \E document_type \in DocumentTypes, document_id \in docs, priority \in priorities :
        /\ \A r \in queue : r.document_id # document_id
        /\ add_to_queue(document_type, document_id, priority)
  /\ UNCHANGED <<company, submissions, invoices, settings, fbr_logs, now, threads, gui>>

\* mutant: ORDER BY priority ASC
OrderedBefore_low_first(a, b) ==
  \/ a.priority < b.priority
  \/ a.priority = b.priority /\ a.created_at < b.created_at

\* ORDER BY priority DESC, created_at ASC
OrderedBefore(a, b) ==
  \/ a.priority > b.priority
  \/ a.priority = b.priority /\ a.created_at < b.created_at

\* the rows the candidate query may return, in an order the database may give
CandidateLists(limit) ==
  LET eligible == {r \in queue : /\ r.company_id = CompanyId
                                 /\ r.status = "Pending"
                                 /\ r.retry_count < r.max_retries}
      n == Cardinality(eligible)
      orders == {f \in [1..n -> {r.id : r \in eligible}] :
                   /\ \A i, j \in 1..n : i # j => f[i] # f[j]
                   /\ \A i, j \in 1..n : i < j => ~OrderedBefore(Row(f[j]), Row(f[i]))}
  IN {SubSeq(f, 1, Min(n, limit)) : f \in orders}

IdleThread == [pc |-> "idle", items |-> <<>>, result |-> NoResult,
               processed_count |-> 0, failed_count |-> 0, errors |-> <<>>]

IdleCaller == [pc |-> "idle", invoice_id |-> NoInvoice, result |-> NoResult]

\* process_queue: the candidate query
ProcessQueueStart(w) ==
  /\ threads[w].pc = "idle"
  /\ \E limit \in Limits : \E items \in CandidateLists(limit) :
       threads' = [threads EXCEPT ![w] =
                     [IdleThread EXCEPT !.pc = IF items = <<>> THEN "return" ELSE "mark",
                                        !.items = items]]
  /\ UNCHANGED <<company, submissions, queue, next_id, invoices, settings, fbr_logs, now, gui>>

\* the row of an item deleted under the batch can no longer be loaded:
\* the error leaves the loop and process_queue returns its error result
ProcessQueueAbort(w) ==
  /\ threads[w].pc \in {"mark", "submit", "outcome"}
  /\ ~HasRow(Head(threads[w].items))
  /\ threads' = [threads EXCEPT ![w] = [IdleThread EXCEPT !.pc = "return"]]
  /\ UNCHANGED <<company, submissions, queue, next_id, invoices, settings, fbr_logs, now, gui>>

\* process_queue: mark as processing, commit
MarkProcessing(w) ==
  /\ threads[w].pc = "mark"
  /\ HasRow(Head(threads[w].items))
  /\ LET item == Row(Head(threads[w].items))
     IN queue' = SetRow(item.id, [item EXCEPT !.status = "Processing",
                                              !.last_retry_at = now])
  /\ threads' = [threads EXCEPT ![w].pc = "submit"]
  /\ UNCHANGED <<company, submissions, next_id, invoices, settings, fbr_logs, now, gui>>

\* process_queue: the mark-Processing commit raises and the per-item except
\* clause runs to its end: Failed, retry_count + 1, the error is listed, next item
ItemException(w) ==
  /\ threads[w].pc = "mark"
  /\ HasRow(Head(threads[w].items))
  /\ LET item == Row(Head(threads[w].items))
         rest == Tail(threads[w].items)
     IN /\ queue' = SetRow(item.id, [item EXCEPT !.status = "Failed",
                                                 !.error_message = <<"commit failed">>,
                                                 !.retry_count = @ + 1])
        /\ threads' = [threads EXCEPT
             ![w].pc = IF rest = <<>> THEN "return" ELSE "mark",
             ![w].items = rest,
             ![w].failed_count = @ + 1,
             ![w].errors = Append(@, item.id)]
  /\ UNCHANGED <<company, submissions, next_id, invoices, settings, fbr_logs, now, gui>>

\* process_queue: the mark-Processing commit raises and so does the commit of
\* the per-item except clause (the database is still away, the session was not
\* rolled back): the exception leaves the loop and the outer except clause
\* returns {processed_count: 0, failed_count: 0, error}
ItemExceptionAbort(w) ==
  /\ threads[w].pc = "mark"
  /\ HasRow(Head(threads[w].items))
  /\ threads' = [threads EXCEPT ![w] = [IdleThread EXCEPT !.pc = "return"]]
  /\ UNCHANGED <<company, submissions, queue, next_id, invoices, settings, fbr_logs, now, gui>>

\* process_queue: the outcome commit raises and so does the commit of the
\* per-item except clause (no rollback in between): the exception leaves the
\* loop and the outer except clause returns; what the database holds for the
\* item is what the mark-Processing commit wrote
OutcomeExceptionAbort(w) ==
  /\ threads[w].pc = "outcome"
  /\ HasRow(Head(threads[w].items))
  /\ threads' = [threads EXCEPT ![w] = [IdleThread EXCEPT !.pc = "return"]]
  /\ UNCHANGED <<company, submissions, queue, next_id, invoices, settings, fbr_logs, now, gui>>

\* the batch stops between the mark-Processing commit and the outcome commit:
\* the application is closed or killed while the worker thread is inside
\* submit_invoice.  The rows stay as committed; the next start has an idle worker
BatchStops(w) ==
  /\ threads[w].pc \in {"submit", "http", "outcome"}
  /\ threads' = [threads EXCEPT ![w] = IdleThread]
  /\ UNCHANGED <<company, submissions, queue, next_id, invoices, settings, fbr_logs, now, gui>>

\* process_queue: submit_invoice(item.document_id) up to the HTTP POST
SubmitCall(w) ==
  /\ threads[w].pc = "submit"
  /\ HasRow(Head(threads[w].items))
  /\ LET item == Row(Head(threads[w].items))
         begin == submit_invoice_begin(item.document_id)
     IN IF begin.post
        THEN /\ BagCardinality(fbr_logs) < MaxLogs
             /\ threads' = [threads EXCEPT ![w].pc = "http"]
        ELSE threads' = [threads EXCEPT ![w].pc = "outcome", ![w].result = begin.result]
  /\ submissions' = [submissions EXCEPT ![Head(threads[w].items)] = @ + 1]
  /\ UNCHANGED <<company, queue, next_id, invoices, settings, fbr_logs, now, gui>>

\* the gateway answers (or the request fails); submit_invoice returns
HttpReturn(w) ==
  /\ threads[w].pc = "http"
  /\ HasRow(Head(threads[w].items))
  /\ \E outcome \in GatewayOutcomes :
       LET invoice_id == Row(Head(threads[w].items)).document_id
           end == submit_invoice_end(invoice_id, outcome)
       IN /\ invoices' = end.invoices
          /\ fbr_logs' = end.fbr_logs
          /\ threads' = [threads EXCEPT ![w].pc = "outcome", ![w].result = end.result]
  /\ UNCHANGED <<company, submissions, queue, next_id, settings, now, gui>>

\* mutant: the delay is not capped
retry_delay_uncapped(retry_count) == BackoffBase * Pow2(retry_count)

retry_delay(retry_count) == Min(BackoffCap, BackoffBase * Pow2(retry_count))

\* mutant: the item is exhausted one failure too late (> for >=)
ApplyResultLate(item, result) ==
  IF result.success
  THEN [item EXCEPT !.status = "Completed", !.completed_at = now]
  ELSE LET retry_count == item.retry_count + 1
           error_message == <<result.error>> \o
                            (IF Len(result.errors) > 0
                             THEN <<" | Errors: ">> \o JoinErrors(result.errors)
                             ELSE <<>>)
       IN IF retry_count > item.max_retries
          THEN [item EXCEPT !.retry_count = retry_count, !.status = "Failed",
                            !.error_message = error_message]
          ELSE [item EXCEPT !.retry_count = retry_count, !.status = "Pending",
                            !.next_retry_at = now + retry_delay(retry_count),
                            !.error_message = error_message]

\* mutant: a successful attempt is counted as a retry
ApplyResultCountsAttempt(item, result) ==
  IF result.success
  THEN [item EXCEPT !.status = "Completed", !.completed_at = now,
                    !.retry_count = @ + 1]
  ELSE LET retry_count == item.retry_count + 1
           error_message == <<result.error>> \o
                            (IF Len(result.errors) > 0
                             THEN <<" | Errors: ">> \o JoinErrors(result.errors)
                             ELSE <<>>)
       IN IF retry_count >= item.max_retries
          THEN [item EXCEPT !.retry_count = retry_count, !.status = "Failed",
                            !.error_message = error_message]
          ELSE [item EXCEPT !.retry_count = retry_count, !.status = "Pending",
                            !.next_retry_at = now + retry_delay(retry_count),
                            !.error_message = error_message]

\* the row after the result of submit_invoice has been applied
ApplyResult(item, result) ==
  IF result.success
  THEN [item EXCEPT !.status = "Completed", !.completed_at = now]
  ELSE LET retry_count == item.retry_count + 1
           error_message == <<result.error>> \o
                            (IF Len(result.errors) > 0
                             THEN <<" | Errors: ">> \o JoinErrors(result.errors)
                             ELSE <<>>)
       IN IF retry_count >= item.max_retries
          THEN [item EXCEPT !.retry_count = retry_count, !.status = "Failed",
                            !.error_message = error_message]
          ELSE [item EXCEPT !.retry_count = retry_count, !.status = "Pending",
                            !.next_retry_at = now + retry_delay(retry_count),
                            !.error_message = error_message]

\* process_queue: record the outcome, commit, go on to the next item or return
Outcome(w) ==
  /\ threads[w].pc = "outcome"
  /\ HasRow(Head(threads[w].items))
  /\ LET item == Row(Head(threads[w].items))
         result == threads[w].result
         new == ApplyResult(item, result)
         rest == Tail(threads[w].items)
     IN /\ queue' = SetRow(item.id, new)
        /\ threads' = [threads EXCEPT
             ![w].pc = IF rest = <<>> THEN "return" ELSE "mark",
             ![w].items = rest,
             ![w].processed_count = IF result.success THEN @ + 1 ELSE @,
             ![w].failed_count = IF ~result.success /\ new.status = "Failed"
                                 THEN @ + 1 ELSE @]
  /\ UNCHANGED <<company, submissions, next_id, invoices, settings, fbr_logs, now, gui>>

\* mutant: the Failed items of every company are reset
retry_failed_items_every_company(max_retry_count) ==
  LET failed_items == {r \in queue : /\ r.status = "Failed"
                                     /\ r.retry_count < max_retry_count}
  IN queue' = (queue \ failed_items) \cup
       {[item EXCEPT !.status = "Pending", !.next_retry_at = now + ManualRetrySeconds] :
          item \in failed_items}

\* mutant: every Failed item is reset, whatever its retry_count
retry_failed_items_all(max_retry_count) ==
  LET failed_items == {r \in queue : /\ r.company_id = CompanyId
                                     /\ r.status = "Failed"}
  IN queue' = (queue \ failed_items) \cup
       {[item EXCEPT !.status = "Pending", !.next_retry_at = now + ManualRetrySeconds] :
          item \in failed_items}

retry_failed_items(max_retry_count) ==
  LET failed_items == {r \in queue : /\ r.company_id = CompanyId
                                     /\ r.status = "Failed"
                                     /\ r.retry_count < max_retry_count}
  IN queue' = (queue \ failed_items) \cup
       {[item EXCEPT !.status = "Pending", !.next_retry_at = now + ManualRetrySeconds] :
          item \in failed_items}

\* process_queue returns {processed_count, failed_count, errors}
ProcessQueueReturn(w) ==
  /\ threads[w].pc = "return"
  /\ threads' = [threads EXCEPT ![w] = IdleThread]
  /\ UNCHANGED <<company, submissions, queue, next_id, invoices, settings, fbr_logs, now, gui>>

RetryFailedItems ==
  /\ \E max_retry_count \in RetryThresholds : retry_failed_items(max_retry_count)
  /\ UNCHANGED <<company, submissions, next_id, invoices, settings, fbr_logs, now, threads, gui>>

\* what retry_failed_items returns: the number of items its loop has reset
retry_failed_items_result(max_retry_count) ==
  [success |-> TRUE,
   retry_count |-> Cardinality({r \in queue : /\ r.company_id = CompanyId
                                              /\ r.status = "Failed"
                                              /\ r.retry_count < max_retry_count})]

\* the operator's "Retry Failed" call with its return value
RetryFailedItemsCall ==
  /\ gui.pc = "idle"
  /\ \E max_retry_count \in RetryThresholds :
       /\ retry_failed_items(max_retry_count)
       /\ gui' = [pc |-> "retried", invoice_id |-> NoInvoice,
                  result |-> retry_failed_items_result(max_retry_count),
                  max_retry_count |-> max_retry_count]
  /\ UNCHANGED <<company, submissions, next_id, invoices, settings, fbr_logs, now, threads>>

RetryFailedItemsReturn ==
  /\ gui.pc = "retried"
  /\ gui' = IdleCaller
  /\ UNCHANGED <<company, submissions, queue, next_id, invoices, settings, fbr_logs, now, threads>>

\* mutant: the sweep does not look at the status
clear_completed_items_any_status(older_than_days) ==
  LET cutoff_date == now - older_than_days * SecondsPerDay
  IN queue' = {r \in queue : ~(/\ r.company_id = CompanyId
                               /\ r.completed_at < cutoff_date)}

clear_completed_items(older_than_days) ==
  LET cutoff_date == now - older_than_days * SecondsPerDay
  IN queue' = {r \in queue : ~(/\ r.company_id = CompanyId
                               /\ r.status = "Completed"
                               /\ r.completed_at < cutoff_date)}

ClearCompletedItems ==
  /\ \E older_than_days \in OlderThanDays : clear_completed_items(older_than_days)
  /\ UNCHANGED <<company, submissions, next_id, invoices, settings, fbr_logs, now, threads, gui>>

\* FBRSubmissionService.submit_invoice called directly (interactive path)
DirectSubmitCall(docs) ==
  /\ gui.pc = "idle"
  /\ \E invoice_id \in docs :
       LET begin == submit_invoice_begin(invoice_id)
       IN IF begin.post
          THEN /\ BagCardinality(fbr_logs) < MaxLogs
               /\ gui' = [pc |-> "http", invoice_id |-> invoice_id, result |-> NoResult]
          ELSE gui' = [pc |-> "return", invoice_id |-> invoice_id, result |-> begin.result]
  /\ UNCHANGED <<company, submissions, queue, next_id, invoices, settings, fbr_logs, now, threads>>

DirectHttpReturn ==
  /\ gui.pc = "http"
  /\ \E outcome \in GatewayOutcomes :
       LET end == submit_invoice_end(gui.invoice_id, outcome)
       IN /\ invoices' = end.invoices
          /\ fbr_logs' = end.fbr_logs
          /\ gui' = [gui EXCEPT !.pc = "return", !.result = end.result]
  /\ UNCHANGED <<company, submissions, queue, next_id, settings, now, threads>>

\* submit_invoice hands its result to the caller
DirectReturn ==
  /\ gui.pc = "return"
  /\ gui' = IdleCaller
  /\ UNCHANGED <<company, submissions, queue, next_id, invoices, settings, fbr_logs, now, threads>>

\* CompanySpecificFBRPayloadBuilder.build_sales_invoice_payload called for an
\* invoice; the caller holds the payload or the exception
BuildPayload(docs) ==
  /\ gui.pc = "idle"
  /\ \E invoice_id \in docs :
       gui' = [pc |-> "built", invoice_id |-> invoice_id,
               result |-> build_sales_invoice_payload(invoice_id)]
  /\ UNCHANGED <<company, submissions, queue, next_id, invoices, settings, fbr_logs, now, threads>>

BuildPayloadReturn ==
  /\ gui.pc = "built"
  /\ gui' = IdleCaller
  /\ UNCHANGED <<company, submissions, queue, next_id, invoices, settings, fbr_logs, now, threads>>

\* the gateway answers HTTP 200 with a body that is not JSON
DirectHttpUndecodable ==
  /\ gui.pc = "http"
  /\ LET end == submit_invoice_end(gui.invoice_id, "Undecodable")
     IN /\ invoices' = end.invoices
        /\ fbr_logs' = end.fbr_logs
        /\ gui' = [gui EXCEPT !.pc = "return", !.result = end.result]
  /\ UNCHANGED <<company, submissions, queue, next_id, settings, now, threads>>

\* the gateway answers HTTP 200 with a JSON body that has no validationResponse
\* or whose validationResponse.status is neither "Valid" nor "Invalid"
DirectHttpUnexpected ==
  /\ gui.pc = "http"
  /\ \E outcome \in UnexpectedBodies :
       LET end == submit_invoice_end(gui.invoice_id, outcome)
       IN /\ invoices' = end.invoices
          /\ fbr_logs' = end.fbr_logs
          /\ gui' = [gui EXCEPT !.pc = "return", !.result = end.result]
  /\ UNCHANGED <<company, submissions, queue, next_id, settings, now, threads>>

\* the gateway answers while the database refuses every commit
DirectHttpRollback ==
  /\ gui.pc = "http"
  /\ \E outcome \in GatewayOutcomes :
       LET end == submit_invoice_end_rollback(gui.invoice_id, outcome)
       IN /\ invoices' = end.invoices
          /\ fbr_logs' = end.fbr_logs
          /\ gui' = [gui EXCEPT !.pc = "return", !.result = end.result]
  /\ UNCHANGED <<company, submissions, queue, next_id, settings, now, threads>>

\* FBRSubmissionService.validate_invoice_with_fbr called by the GUI
ValidateCall(docs) ==
  /\ gui.pc = "idle"
  /\ \E invoice_id \in docs :
       LET begin == validate_invoice_with_fbr_begin(invoice_id)
       IN IF begin.post
          THEN /\ BagCardinality(fbr_logs) < MaxLogs
               /\ gui' = [pc |-> "vhttp", invoice_id |-> invoice_id, result |-> NoResult]
          ELSE gui' = [pc |-> "vreturn", invoice_id |-> invoice_id, result |-> begin.result]
  /\ UNCHANGED <<company, submissions, queue, next_id, invoices, settings, fbr_logs, now, threads>>

ValidateHttpReturn ==
  /\ gui.pc = "vhttp"
  /\ \E outcome \in ValidationOutcomes :
       LET end == validate_invoice_with_fbr_end(gui.invoice_id, outcome)
       IN /\ invoices' = end.invoices
          /\ fbr_logs' = end.fbr_logs
          /\ gui' = [gui EXCEPT !.pc = "vreturn", !.result = end.result]
  /\ UNCHANGED <<company, submissions, queue, next_id, settings, now, threads>>

\* validate_invoice_with_fbr hands its result to the caller
ValidateReturn ==
  /\ gui.pc = "vreturn"
  /\ gui' = IdleCaller
  /\ UNCHANGED <<company, submissions, queue, next_id, invoices, settings, fbr_logs, now, threads>>

Tick ==
  /\ now + TickSeconds <= MaxNow
  /\ now' = now + TickSeconds
  /\ UNCHANGED <<company, submissions, queue, next_id, invoices, settings, fbr_logs, threads, gui>>

(* ----------------------------- specifications -------------------------- *)

ValidInvoice == NewInvoice("Sindh", <<GoodItem>>)
\* an invoice the validator rejects: no buyer province
InvalidInvoice == NewInvoice("", <<GoodItem>>)

\* line items with one defect each, and the lists of them
ItemVariants ==
  {GoodItem,
   [GoodItem EXCEPT !.hs_code = ""],
   [GoodItem EXCEPT !.uom = ""],
   [GoodItem EXCEPT !.quantity = 0],
   [GoodItem EXCEPT !.total_value = 0],
   [GoodItem EXCEPT !.tax_rate = NoRate]}
ItemLists == UNION {[1..n -> ItemVariants] : n \in 0..MaxItems}

\* the invoices the validator is given
InvoiceVariants ==
  {[NewInvoice(buyer_province, items) EXCEPT
      !.sale_origination_province = sale_origination_province,
      !.buyer_ntn_cnic = buyer_ntn_cnic,
      !.buyer_name = buyer_name,
      !.date_offset_days = date_offset_days] :
     buyer_province \in {"", "Sindh"},
     sale_origination_province \in {"", "Sindh"},
     buyer_ntn_cnic \in {"", "9876543210987"},
     buyer_name \in {"", "Buyer"},
     date_offset_days \in {0, 10},
     items \in ItemLists}

CompanyVariants == {Company, [Company EXCEPT !.name = ""], NoCompany}

\* any invoice 1 of the variants, any company row
InitValidate ==
  /\ queue = {}
  /\ next_id = 1
  /\ \E invoice \in InvoiceVariants :
       invoices = [d \in Docs |-> IF d = 1 THEN invoice ELSE ValidInvoice]
  /\ company \in CompanyVariants
  /\ settings = "configured"
  /\ fbr_logs = EmptyBag
  /\ now = 0
  /\ threads = [w \in Workers |-> IdleThread]
  /\ gui = IdleCaller
  /\ submissions = [id \in 1..MaxRows |-> 0]

\* the FBRSettings row of the company: complete, absent, without api_endpoint,
\* without pral_authorization_token
SettingsKinds == {"configured", "absent", "no_endpoint", "no_token"}

\* any state of the company's FBR settings
InitConfig ==
  /\ queue = {}
  /\ next_id = 1
  /\ invoices \in {[d \in Docs |-> IF d = g THEN ValidInvoice ELSE InvalidInvoice] : g \in Docs}
  /\ company = Company
  /\ settings \in SettingsKinds
  /\ fbr_logs = EmptyBag
  /\ now = 0
  /\ threads = [w \in Workers |-> IdleThread]
  /\ gui = IdleCaller
  /\ submissions = [id \in 1..MaxRows |-> 0]

\* stored discounts of a line item
DiscountValues == {-50, 0, 50}
\* the invoices the payload builder is given
PayloadInvoices ==
  {[NewInvoice("Sindh", items) EXCEPT !.buyer_type = buyer_type,
                                      !.buyer_ntn_cnic = buyer_ntn_cnic] :
     buyer_type \in {"Registered", "Unregistered", ""},
     buyer_ntn_cnic \in {"", "9876543210987"},
     items \in UNION {[1..n -> {[GoodItem EXCEPT !.discount = discount] :
                                  discount \in DiscountValues}] : n \in 0..MaxItems}}

InitPayload ==
  /\ queue = {}
  /\ next_id = 1
  /\ \E invoice \in PayloadInvoices :
       invoices = [d \in Docs |-> IF d = 1 THEN invoice ELSE ValidInvoice]
  /\ company \in {Company, NoCompany}
  /\ settings = "configured"
  /\ fbr_logs = EmptyBag
  /\ now = 0
  /\ threads = [w \in Workers |-> IdleThread]
  /\ gui = IdleCaller
  /\ submissions = [id \in 1..MaxRows |-> 0]

\* a queue row of another company: waiting, failed once, or completed
OtherCompanyRow(id, status) ==
  [FBRQueue(id, "Sales Invoice", 2, DefaultPriority) EXCEPT
     !.company_id = OtherCompanyId, !.status = status,
     !.retry_count = IF status = "Failed" THEN 1 ELSE 0,
     !.created_at = 0,
     !.completed_at = IF status = "Completed" THEN 0 ELSE NoTime]

\* a database shared with another company: invoice 1 belongs to the manager's
\* company, invoice 2 to the other one, whose queue rows, a minute old, have
\* taken every id of the table but the last
InitIsolation ==
  /\ now = TickSeconds
  /\ \E status \in {"Pending", "Failed", "Completed"} :
       queue = {OtherCompanyRow(id, status) : id \in 1..(MaxRows - 1)}
  /\ next_id = MaxRows
  /\ invoices = [d \in Docs |-> IF d = 1 THEN ValidInvoice
                                ELSE [ValidInvoice EXCEPT !.company_id = OtherCompanyId]]
  /\ company = Company
  /\ settings = "configured"
  /\ fbr_logs = EmptyBag
  /\ threads = [w \in Workers |-> IdleThread]
  /\ gui = IdleCaller
  /\ submissions = [id \in 1..MaxRows |-> 0]

Init ==
  /\ queue = {}
  /\ next_id = 1
  /\ invoices \in {[d \in Docs |-> IF d = g THEN ValidInvoice ELSE InvalidInvoice] : g \in Docs}
  /\ company = Company
  /\ settings \in {"configured", "absent"}
  /\ fbr_logs = EmptyBag
  /\ now = 0
  /\ threads = [w \in Workers |-> IdleThread]
  /\ gui = IdleCaller
  /\ submissions = [id \in 1..MaxRows |-> 0]

\* the operations of the core on one document, one batch at a time
Next ==
  \/ AddToQueue({1})
  \/ ProcessQueueStart(1)
  \/ MarkProcessing(1)
  \/ SubmitCall(1)
  \/ HttpReturn(1)
  \/ Outcome(1)
  \/ ProcessQueueReturn(1)
  \/ RetryFailedItems

Spec == Init /\ [][Next]_vars

\* two "Process Queue" clicks: two worker threads drain the queue at once,
\* while completed items are cleared
NextOverlap ==
  \/ AddFresh({1})
  \/ \E w \in Workers : ProcessQueueStart(w)
  \/ \E w \in Workers : MarkProcessing(w)
  \/ \E w \in Workers : SubmitCall(w)
  \/ \E w \in Workers : HttpReturn(w)
  \/ \E w \in Workers : Outcome(w)
  \/ \E w \in Workers : ProcessQueueReturn(w)
  \/ \E w \in Workers : ProcessQueueAbort(w)
  \/ ClearCompletedItems
  \/ Tick

SpecOverlap == Init /\ [][NextOverlap]_vars

\* only add_to_queue and process_queue are called
NextAddProcess ==
  \/ AddToQueue({1})
  \/ ProcessQueueStart(1)
  \/ MarkProcessing(1)
  \/ SubmitCall(1)
  \/ HttpReturn(1)
  \/ Outcome(1)
  \/ ProcessQueueReturn(1)

SpecAddProcess == Init /\ [][NextAddProcess]_vars

\* add_to_queue and process_queue, one queue row per document: add_to_queue is
\* called for a document without a row or with a Pending row
NextAttempts ==
  \/ AddFresh(Docs)
  \/ AddAgain(Docs, Priorities)
  \/ ProcessQueueStart(1)
  \/ MarkProcessing(1)
  \/ SubmitCall(1)
  \/ HttpReturn(1)
  \/ Outcome(1)
  \/ ProcessQueueReturn(1)

SpecAttempts == Init /\ [][NextAttempts]_vars

\* a step of the process_queue batch of worker w
Batch(w) ==
  \/ ProcessQueueStart(w)
  \/ MarkProcessing(w)
  \/ SubmitCall(w)
  \/ HttpReturn(w)
  \/ Outcome(w)
  \/ ProcessQueueReturn(w)

\* process_queue is called again and again and every batch runs to its end
\* (requests.post has a timeout, so the gateway step always returns), while
\* add_to_queue may be called for the one document at any time
NextDrain ==
  \/ AddFresh({1})
  \/ AddAgain({1}, Priorities)
  \/ Batch(1)

SpecDrain == Init /\ [][NextDrain]_vars /\ WF_vars(Batch(1))

\* the queue manager of a company that may be stopped in the middle of a batch
NextRecover ==
  \/ AddToQueue({1})
  \/ Batch(1)
  \/ BatchStops(1)
  \/ RetryFailedItems

\* after a stop every operation of the queue manager keeps being called
SpecRecover ==
  /\ Init
  /\ [][NextRecover]_vars
  /\ WF_vars(Batch(1))
  /\ WF_vars(RetryFailedItems)
  /\ WF_vars(AddToQueue({1}))

\* interactive submission next to the queue
NextSubmit ==
  \/ DirectSubmitCall(Docs)
  \/ DirectHttpReturn
  \/ DirectReturn
  \/ AddFresh({1})
  \/ ProcessQueueStart(1)
  \/ MarkProcessing(1)
  \/ SubmitCall(1)
  \/ HttpReturn(1)
  \/ Outcome(1)
  \/ ProcessQueueReturn(1)

SpecSubmit == Init /\ [][NextSubmit]_vars

\* the submission service called from the GUI thread, gateway and database
\* faults included
NextService ==
  \/ DirectSubmitCall(ServiceDocs)
  \/ DirectHttpReturn
  \/ DirectHttpUndecodable
  \/ DirectHttpUnexpected
  \/ DirectHttpRollback
  \/ DirectReturn
  \/ ValidateCall(ServiceDocs)
  \/ ValidateHttpReturn
  \/ ValidateReturn

SpecService == Init /\ [][NextService]_vars

\* process_queue while the database may refuse a commit
NextFaults ==
  \/ AddFresh(Docs)
  \/ ProcessQueueStart(1)
  \/ MarkProcessing(1)
  \/ ItemException(1)
  \/ ItemExceptionAbort(1)
  \/ SubmitCall(1)
  \/ HttpReturn(1)
  \/ Outcome(1)
  \/ OutcomeExceptionAbort(1)
  \/ ProcessQueueReturn(1)

SpecFaults == Init /\ [][NextFaults]_vars

\* documents enqueued at different times with different priorities, drained by
\* one batch at a time
NextOrder ==
  \/ AddFreshAt(Docs, QueuePriorities)
  \/ ProcessQueueStart(1)
  \/ MarkProcessing(1)
  \/ SubmitCall(1)
  \/ HttpReturn(1)
  \/ Outcome(1)
  \/ ProcessQueueReturn(1)
  \/ Tick

SpecOrder == Init /\ [][NextOrder]_vars

\* documents enqueued, and enqueued again, with priorities of the caller's
\* choice, drained by one batch at a time
NextPriority ==
  \/ AddFreshAt(Docs, QueuePriorities)
  \/ AddAgain({1}, QueuePriorities)
  \/ Batch(1)

SpecPriority == Init /\ [][NextPriority]_vars

\* every operation of the manager's company next to the rows of another company
NextIsolation ==
  \/ AddFresh(Docs)
  \/ Batch(1)
  \/ RetryFailedItems
  \/ ClearCompletedItems
  \/ DirectSubmitCall(Docs)
  \/ DirectHttpReturn
  \/ DirectReturn

SpecIsolation == InitIsolation /\ [][NextIsolation]_vars

\* the operator resets failed items between batches; the database may refuse
\* a mark-Processing commit
NextRetry ==
  \/ AddFresh(Docs)
  \/ ProcessQueueStart(1)
  \/ MarkProcessing(1)
  \/ ItemException(1)
  \/ SubmitCall(1)
  \/ HttpReturn(1)
  \/ Outcome(1)
  \/ ProcessQueueReturn(1)
  \/ RetryFailedItemsCall
  \/ RetryFailedItemsReturn

SpecRetry == Init /\ [][NextRetry]_vars

\* the retention sweep next to enqueueing and batches, as time passes
NextRetention ==
  \/ AddFresh(Docs)
  \/ ProcessQueueStart(1)
  \/ MarkProcessing(1)
  \/ SubmitCall(1)
  \/ HttpReturn(1)
  \/ Outcome(1)
  \/ ProcessQueueReturn(1)
  \/ ClearCompletedItems
  \/ Tick

SpecRetention == Init /\ [][NextRetention]_vars

\* submit_invoice on invoice 1, an invoice of any kind
NextValidate ==
  \/ DirectSubmitCall({1})
  \/ DirectHttpReturn
  \/ DirectReturn

SpecValidate == InitValidate /\ [][NextValidate]_vars

\* submit_invoice under every state of the settings
NextConfig ==
  \/ DirectSubmitCall(Docs)
  \/ DirectHttpReturn
  \/ DirectReturn

SpecConfig == InitConfig /\ [][NextConfig]_vars

\* the payload builder on invoices of every kind
NextPayload ==
  \/ BuildPayload(ServiceDocs)
  \/ BuildPayloadReturn

SpecPayload == InitPayload /\ [][NextPayload]_vars

\* every document is enqueued once; afterwards only process_queue runs
NextUnattended ==
  \/ AddFresh(Docs)
  \/ ProcessQueueStart(1)
  \/ MarkProcessing(1)
  \/ SubmitCall(1)
  \/ HttpReturn(1)
  \/ Outcome(1)
  \/ ProcessQueueReturn(1)
  \/ Tick

SpecUnattended == Init /\ [][NextUnattended]_vars

\* only add_to_queue is called, any number of times in a row
NextEnqueue ==
  \/ AddToQueue(Docs)
  \/ Tick

SpecEnqueue == Init /\ [][NextEnqueue]_vars

(* ------------------------- what the claims refer to -------------------- *)

RowIn(q, id) == CHOOSE r \in q : r.id = id
RowsOf(q, document_id) == {r \in q : r.document_id = document_id}
HeadRow(w) == Row(Head(threads[w].items))
Active(r) == r.status \in {"Pending", "Processing"}
SameDocument(r1, r2) ==
  /\ r1.company_id = r2.company_id
  /\ r1.document_type = r2.document_type
  /\ r1.document_id = r2.document_id

\* worker w sends the HTTP POST of an invoice in this step
WorkerPosts(w, document_id) ==
  /\ threads[w].pc = "submit"
  /\ threads'[w].pc = "http"
  /\ HeadRow(w).document_id = document_id

\* a direct submit_invoice call sends the HTTP POST in this step
DirectPosts(document_id) ==
  /\ gui.pc = "idle"
  /\ gui'.pc = "http"
  /\ gui'.invoice_id = document_id

\* worker w records the outcome of a failed submit_invoice in this step
FailureOutcomeStep(w) ==
  /\ threads[w].pc = "outcome"
  /\ threads'[w].pc # "outcome"
  /\ ~threads[w].result.success
  /\ HasRow(Head(threads[w].items))

(* -------------------------------- claims ------------------------------- *)

\* C1: in every reachable state there is at most one queue item with status
\* Pending or Processing for each (company_id, document_type, document_id).
C1_AtMostOneActiveItem ==
  \A r1, r2 \in queue :
    (SameDocument(r1, r2) /\ Active(r1) /\ Active(r2)) => r1 = r2

\* C2: calling add_to_queue n >= 1 times in a row for one document, with nothing
\* else in between, leaves exactly one queue row for it, Pending, with
\* retry_count = n - 1: the first call inserts the row with retry_count 0 and
\* every further call adds no row and adds one to its retry_count.
C2_RepeatedEnqueueKeepsOneRow ==
  [][\A d \in Docs :
       LET before == RowsOf(queue, d)
           after == RowsOf(queue', d)
       IN /\ Cardinality(after) <= 1
          /\ \A r \in after : r.status = "Pending"
          /\ (before = {} /\ after # {}) => \A r \in after : r.retry_count = 0
          /\ (before # {} /\ after # before) =>
               \A r \in before : \A r2 \in after :
                  /\ r2.id = r.id
                  /\ r2.retry_count = r.retry_count + 1]_vars

\* C2 witness: two calls in a row have left one row with retry_count = 1
C2_Witness ==
  \E d \in Docs :
    /\ Cardinality(RowsOf(queue, d)) = 1
    /\ \A r \in RowsOf(queue, d) : r.status = "Pending" /\ r.retry_count = 1

\* C3: no two process_queue batches have a submission of the same invoice
\* in flight at the same time.
C3_NoOverlappingSubmission ==
  \A w1, w2 \in Workers :
    (/\ w1 # w2
     /\ threads[w1].pc = "http"
     /\ threads[w2].pc = "http"
     /\ HasRow(Head(threads[w1].items))
     /\ HasRow(Head(threads[w2].items)))
    => HeadRow(w1).document_id # HeadRow(w2).document_id

\* C4: once an invoice has fbr_status = "Valid", no operation sends another
\* submission of that invoice to the FBR gateway.
C4_NoSubmissionAfterValid ==
  [][\A d \in Docs :
       invoices[d].fbr_status = "Valid" =>
         /\ ~DirectPosts(d)
         /\ \A w \in Workers : ~WorkerPosts(w, d)]_vars

\* C5: every status change of a queue item follows
\* Pending -> Processing -> {Completed, Pending, Failed}.
C5_StatusStateMachine ==
  [][\A r \in queue : \A r2 \in queue' :
       (r2.id = r.id /\ r2.status # r.status) =>
         \/ r.status = "Pending" /\ r2.status = "Processing"
         \/ r.status = "Processing" /\ r2.status \in {"Completed", "Pending", "Failed"}]_vars

\* C6: under add_to_queue and process_queue alone, a queue item whose retry_count
\* has reached its max_retries is never selected by process_queue and has status
\* Failed.
C6_ExhaustedIsFailed ==
  [][/\ \A r \in queue' : r.retry_count >= r.max_retries => r.status = "Failed"
     /\ \A w \in Workers :
          (threads[w].pc = "idle" /\ threads'[w].pc = "mark") =>
            \A i \in 1..Len(threads'[w].items) :
               LET r == RowIn(queue, threads'[w].items[i])
               IN r.retry_count < r.max_retries]_vars

\* C7: when submit_invoice reports failure for an item of process_queue, the item's
\* retry_count grows by exactly 1; the item becomes Failed, and failed_count grows
\* by 1, iff the new retry_count >= max_retries; otherwise it becomes Pending with
\* next_retry_at set; error_message holds the error followed by the sub-errors.
C7_FailureOutcome ==
  [][\A w \in Workers :
       FailureOutcomeStep(w) =>
         LET item == HeadRow(w)
             item2 == RowIn(queue', item.id)
             result == threads[w].result
         IN /\ item2.retry_count = item.retry_count + 1
            /\ item2.status = "Failed" <=> item2.retry_count >= item2.max_retries
            /\ item2.status # "Failed" =>
                 /\ item2.status = "Pending"
                 /\ item2.next_retry_at # NoTime
                 /\ item2.next_retry_at > now
            /\ threads'[w].failed_count =
                 threads[w].failed_count + (IF item2.status = "Failed" THEN 1 ELSE 0)
            /\ threads'[w].processed_count = threads[w].processed_count
            /\ Head(item2.error_message) = result.error
            /\ \A i \in 1..Len(result.errors) :
                 \E j \in 2..Len(item2.error_message) :
                    item2.error_message[j] = result.errors[i]]_vars

\* C7 witness: a failure with validation sub-errors has exhausted an item
C7_Witness ==
  \E r \in queue :
    /\ r.status = "Failed"
    /\ r.retry_count = r.max_retries
    /\ Len(r.error_message) > 1
    /\ \E w \in Workers : threads[w].failed_count = 1

\* C8: the delay scheduled after a failure that leaves the item with
\* retry_count = n is min(300, 30 * 2^n) seconds, that is 60, 120, 240, 300 for
\* n = 1, 2, 3, 4; it never decreases with n and never exceeds 300.
C8_BackoffDelay ==
  [][\A w \in Workers :
       FailureOutcomeStep(w) =>
         LET item2 == RowIn(queue', HeadRow(w).id)
             n == item2.retry_count
             delay == item2.next_retry_at - now
         IN item2.status = "Pending" =>
              /\ delay = (IF 30 * (2 ^ n) < 300 THEN 30 * (2 ^ n) ELSE 300)
              /\ n = 1 => delay = 60
              /\ n = 2 => delay = 120
              /\ n = 3 => delay = 240
              /\ n = 4 => delay = 300
              /\ delay <= 300
              /\ \A m \in 1..n : retry_delay(m) <= delay]_vars

\* C8 witness: an item has failed four times and waits the capped 300 seconds
C8_Witness ==
  \E r \in queue :
    /\ r.status = "Pending"
    /\ r.retry_count = 4
    /\ r.next_retry_at - r.last_retry_at = 300

\* C9: an item that process_queue rescheduled with next_retry_at = T is not sent
\* to the gateway again before time T.
C9_BackoffHonoured ==
  [][\A w \in Workers : \A d \in Docs :
       WorkerPosts(w, d) =>
         \/ HeadRow(w).next_retry_at = NoTime
         \/ now >= HeadRow(w).next_retry_at]_vars

\* C10: an item whose submit_invoice failed on local validation errors or on
\* missing FBR settings is not handed to submit_invoice again by a later
\* process_queue, when nobody re-enqueued or retried it.
C10_LocalFailureNotRetried ==
  [][\A w \in Workers :
       (threads[w].pc = "submit" /\ threads'[w].pc # "submit") =>
         \/ HeadRow(w).error_message = <<>>
         \/ Head(HeadRow(w).error_message) \notin
              {"Validation failed", "FBR API settings not configured for this company"}]_vars

\* worker w receives the gateway's answer to its POST in this step
WorkerAnswered(w) ==
  /\ threads[w].pc = "http"
  /\ threads'[w].pc = "outcome"
  /\ threads'[w].result.success

\* worker w records the outcome of an answered submit_invoice in this step
AnsweredOutcomeStep(w) ==
  /\ threads[w].pc = "outcome"
  /\ threads'[w].pc # "outcome"
  /\ threads[w].result.success
  /\ HasRow(Head(threads[w].items))

\* a submit_invoice call of the GUI thread starts, or ends, in this step
DirectCallStarts == gui.pc = "idle" /\ gui'.pc \in {"http", "return"}
DirectCallEnds == gui.pc \in {"idle", "http"} /\ gui'.pc = "return"
DirectAnswered == gui.pc = "http" /\ gui'.pc = "return" /\ gui'.result.success
\* a validate_invoice_with_fbr call of the GUI thread ends in this step
ValidateCallEnds == gui.pc \in {"idle", "vhttp"} /\ gui'.pc = "vreturn"

RECURSIVE SumCopies(_)
SumCopies(S) ==
  IF S = {} THEN 0
  ELSE LET x == CHOOSE y \in S : TRUE
       IN CopiesIn(x, fbr_logs) + SumCopies(S \ {x})

\* the number of SubmissionLog rows of a document whose status is in statuses
LogRows(document_id, statuses) ==
  SumCopies({l \in BagToSet(fbr_logs) :
               l.document_id = document_id /\ l.status \in statuses})
LogStatuses == {"Valid", "Invalid", "Unknown", "Success", "Error", "Validation"}

\* C11: when the gateway answers with a validationResponse.status other than
\* "Valid", the invoice gets status Failed and the returned fbr_status; process_queue
\* does not put the queue item back to Pending, and no later process_queue sends
\* an invoice whose last answer was a rejection.
C11_RejectionNotRetried ==
  [][\A w \in Workers :
       /\ (WorkerAnswered(w) /\ threads'[w].result.response # "Valid") =>
            LET d == HeadRow(w).document_id
            IN /\ invoices'[d].status = "Failed"
               /\ invoices'[d].fbr_status = threads'[w].result.response
       /\ (AnsweredOutcomeStep(w) /\ threads[w].result.response # "Valid") =>
            RowIn(queue', HeadRow(w).id).status \notin {"Pending", "Processing"}
       /\ \A d \in Docs :
            WorkerPosts(w, d) => invoices[d].fbr_status \in {"", "Valid"}]_vars

\* C11 witness: a rejected invoice is Failed and its queue item is at rest
C11_Witness ==
  \E r \in queue :
    /\ r.status = "Completed"
    /\ invoices[r.document_id].fbr_status = "Invalid"
    /\ invoices[r.document_id].status = "Failed"

\* C12: a submit_invoice call on an invoice the validator rejects returns
\* {success: false, error: "Validation failed", errors} without an HTTP call and
\* a call is in its HTTP request only for an invoice the validator accepted.
C12_ValidationBeforeNetwork ==
  [][/\ (DirectCallStarts /\ ~validate_invoice(gui'.invoice_id).valid) =>
          /\ gui'.pc = "return"
          /\ gui'.result =
               Failure("Validation failed", validate_invoice(gui'.invoice_id).errors)
     /\ gui'.pc = "http" => validate_invoice(gui'.invoice_id).valid]_vars

\* C12 witness: a call has returned the validator's errors
C12_Witness ==
  /\ gui.pc = "return"
  /\ gui.result.error = "Validation failed"
  /\ Len(gui.result.errors) > 0
  /\ ~gui.result.success

\* C13: every submit_invoice call appends exactly one SubmissionLog row,
\* whatever its outcome.
C13_OneLogRowPerCall ==
  [][DirectCallEnds =>
       \E status \in LogStatuses :
          fbr_logs' = _log_submission(gui'.invoice_id, "Sales Invoice", status)]_vars

\* C14: a submit_invoice call that the gateway answers with "Valid" leaves the
\* invoice with fbr_status "Valid" and status "Submitted" and adds exactly one
\* SubmissionLog row, whose status is "Success".
C14_AcceptedSubmission ==
  [][(DirectAnswered /\ gui'.result.response = "Valid") =>
       /\ invoices'[gui.invoice_id].fbr_status = "Valid"
       /\ invoices'[gui.invoice_id].status = "Submitted"
       /\ fbr_logs' = _log_submission(gui.invoice_id, "Sales Invoice", "Success")]_vars

\* C15: an invoice enqueued once whose submission failed at the gateway k times
\* and then succeeded has a Completed queue item with retry_count = k and k + 1
\* SubmissionLog rows, k of them failure rows and one a success row (k = 2:
\* three process_queue runs, retry_count 2, three rows).
C15_FailThenSucceed ==
  \A r \in queue :
    r.status = "Completed" =>
      /\ LogRows(r.document_id, LogStatuses) = r.retry_count + 1
      /\ LogRows(r.document_id, {"Error"}) = r.retry_count
      /\ LogRows(r.document_id, {"Valid", "Invalid", "Success"}) = 1

\* C15 witness: two timeouts, then accepted
C15_Witness ==
  \E r \in queue :
    /\ r.status = "Completed"
    /\ r.retry_count = 2
    /\ invoices[r.document_id].fbr_status = "Valid"
    /\ LogRows(r.document_id, LogStatuses) = 3
    /\ LogRows(r.document_id, {"Error"}) = 2

\* C16: a submit_invoice call the gateway answered sets invoice.fbr_status to
\* validationResponse.status, and invoice.status to "Submitted" if that status
\* is "Valid" and to "Failed" otherwise.
C16_InvoiceUpdatedFromResponse ==
  [][/\ DirectAnswered =>
          LET invoice == invoices'[gui.invoice_id]
          IN /\ invoice.fbr_status = gui'.result.response
             /\ invoice.status = IF invoice.fbr_status = "Valid"
                                 THEN "Submitted" ELSE "Failed"
     /\ \A w \in Workers :
          WorkerAnswered(w) =>
            LET invoice == invoices'[HeadRow(w).document_id]
            IN /\ invoice.fbr_status = threads'[w].result.response
               /\ invoice.status = IF invoice.fbr_status = "Valid"
                                   THEN "Submitted" ELSE "Failed"]_vars

\* C16 witness: a direct call has returned a rejection and the invoice is Failed
C16_Witness ==
  /\ gui.pc = "return"
  /\ gui.result.success
  /\ gui.result.response = "Invalid"
  /\ invoices[gui.invoice_id].fbr_status = "Invalid"
  /\ invoices[gui.invoice_id].status = "Failed"

\* the status changes of an invoice that go forward
ForwardStatusChanges ==
  {<<"Draft", "Validated">>, <<"Draft", "Submitted">>, <<"Draft", "Completed">>,
   <<"Validated", "Submitted">>, <<"Validated", "Completed">>,
   <<"Submitted", "Completed">>,
   <<"Draft", "Failed">>, <<"Validated", "Failed">>}

\* C17: invoice.status only advances: every change follows
\* Draft -> Validated -> Submitted -> Completed or moves an invoice that is not
\* yet Submitted to Failed (a Failed invoice may be submitted anew); a Submitted
\* invoice is never set to Failed or back to an earlier status.
C17_InvoiceStatusAdvances ==
  [][\A d \in Docs :
       invoices'[d].status # invoices[d].status =>
         \/ <<invoices[d].status, invoices'[d].status>> \in ForwardStatusChanges
         \/ invoices[d].status = "Failed"]_vars

\* C18: a submit_invoice call that ends in a validation failure, a configuration
\* failure or a failed request leaves every invoice as it was, and an invoice
\* changes only in the step in which the gateway's answer to its submission
\* arrives.
C18_FailureLeavesInvoice ==
  [][/\ (DirectCallEnds /\ ~gui'.result.success) => invoices' = invoices
     /\ \A d \in Docs :
          invoices'[d] # invoices[d] => (DirectAnswered /\ gui.invoice_id = d)]_vars

\* C18 witness: a call has ended in a failed request and the invoice is untouched
C18_Witness ==
  /\ gui.pc = "return"
  /\ ~gui.result.success
  /\ gui.result.error = "FBR API request failed"
  /\ gui.invoice_id \in Docs
  /\ invoices[gui.invoice_id].fbr_status = ""
  /\ invoices[gui.invoice_id].status = "Draft"

\* C19: a validate_invoice_with_fbr call never changes an invoice and, on every
\* outcome, appends a SubmissionLog row of document type
\* "Sales Invoice Validation".
C19_ValidateOnlyLogs ==
  [][ValidateCallEnds =>
       /\ invoices' = invoices
       /\ \E status \in LogStatuses :
            fbr_logs' = _log_submission(gui'.invoice_id, "Sales Invoice Validation",
                                        status)]_vars

\* C20: submit_invoice and validate_invoice_with_fbr hand their caller a result
\* with a boolean success field on every outcome; no exception leaves them.
C20_NoExceptionEscapes ==
  gui.pc \in {"return", "vreturn"} =>
    /\ ~IsRaised(gui.result)
    /\ gui.result.success \in BOOLEAN

\* C20 witness: a gateway body that is not JSON has come back as a failure result
C20_Witness ==
  /\ gui.pc = "return"
  /\ ~IsRaised(gui.result)
  /\ ~gui.result.success
  /\ gui.result.error = "FBR API request failed: Expecting value"

\* an exception is raised while worker w processes the head of its list
ItemExceptionStep(w) ==
  /\ threads[w].pc = "mark"
  /\ threads'[w].pc # "submit"
  /\ threads'[w] # threads[w]
  /\ HasRow(Head(threads[w].items))

\* C21: an exception raised while process_queue handles one item marks that item
\* Failed with retry_count + 1, appends the error to the batch's error list and
\* lets the batch go on with the remaining selected items.
C21_ExceptionKeepsBatch ==
  [][\A w \in Workers :
       ItemExceptionStep(w) =>
         LET item == HeadRow(w)
             item2 == RowIn(queue', item.id)
             rest == Tail(threads[w].items)
         IN /\ item2.status = "Failed"
            /\ item2.retry_count = item.retry_count + 1
            /\ Len(threads'[w].errors) = Len(threads[w].errors) + 1
            /\ threads'[w].items = rest
            /\ threads'[w].pc = IF rest = <<>> THEN "return" ELSE "mark"]_vars

\* the rows process_queue may select
Eligible ==
  {r \in queue : /\ r.company_id = CompanyId
                 /\ r.status = "Pending"
                 /\ r.retry_count < r.max_retries}

\* row a comes before row b: higher priority, or the same priority and older
ComesBefore(a, b) ==
  \/ a.priority > b.priority
  \/ a.priority = b.priority /\ a.created_at < b.created_at

C23_SuccessOutcome ==
  [][\A w \in Workers :
       AnsweredOutcomeStep(w) =>
         LET item == HeadRow(w)
             item2 == RowIn(queue', item.id)
         IN /\ item2.status = "Completed"
            /\ item2.completed_at = now
            /\ item2.completed_at # NoTime
            /\ item2.retry_count = item.retry_count
            /\ threads'[w].processed_count = threads[w].processed_count + 1
            /\ threads'[w].failed_count = threads[w].failed_count]_vars

\* C23 witness: a batch has completed an item that had failed once before
C23_Witness ==
  \E w \in Workers : \E r \in queue :
    /\ threads[w].processed_count = 1
    /\ r.status = "Completed"
    /\ r.completed_at > 0
    /\ r.retry_count = 1

\* C24: retry_failed_items(m) sets to Pending, with next_retry_at five minutes
\* ahead, exactly the company's Failed items with retry_count < m, returns their
\* number, and leaves every other item and every retry_count as it was.
C24_RetryFailedItems ==
  [][(gui.pc = "idle" /\ gui'.pc = "retried") =>
       LET m == gui'.max_retry_count
           reset == {r \in queue : /\ r.company_id = CompanyId
                                   /\ r.status = "Failed"
                                   /\ r.retry_count < m}
       IN /\ gui'.result.success
          /\ gui'.result.retry_count = Cardinality(reset)
          /\ {r.id : r \in queue'} = {r.id : r \in queue}
          /\ \A r \in queue :
               LET r2 == RowIn(queue', r.id)
               IN /\ r2.retry_count = r.retry_count
                  /\ IF r \in reset
                     THEN r2 = [r EXCEPT !.status = "Pending",
                                         !.next_retry_at = now + 5 * 60]
                     ELSE r2 = r]_vars

\* C24 witness: a call with m = 3 has reset one Failed item and left an exhausted
\* one Failed
C24_Witness ==
  /\ gui.pc = "retried"
  /\ gui.max_retry_count = 3
  /\ gui.result.retry_count = 1
  /\ \E r \in queue : r.status = "Failed" /\ r.retry_count >= 3
  /\ \E r \in queue : r.status = "Pending" /\ r.next_retry_at = now + 5 * 60

\* C25: a queue row disappears only in a clear_completed_items call, and only
\* if it is Completed with completed_at before the call's cutoff; no Pending,
\* Processing or Failed row and no newer Completed row is ever deleted.
C25_OnlyOldCompletedDeleted ==
  [][\A r \in queue :
       (\A r2 \in queue' : r2.id # r.id) =>
         /\ r.status = "Completed"
         /\ \E days \in OlderThanDays : r.completed_at < now - days * 24 * 60 * 60
         /\ queue' \subseteq queue
         /\ UNCHANGED <<company, next_id, invoices, settings, fbr_logs, now, threads, gui>>]_vars

\* C25 witness: the sweep has removed a row and another row, not Completed or
\* completed just now, is still there
C25_Witness ==
  /\ Cardinality(queue) < next_id - 1
  /\ \E r \in queue : r.status # "Completed" \/ r.completed_at = now

\* one of the hard errors holds for invoice d
HardError(d) ==
  LET invoice == invoices[d]
  IN \/ invoice.buyer_province = ""
     \/ invoice.sale_origination_province = ""
     \/ ~HasCompany
     \/ (HasCompany /\ company.ntn_cnic = "")
     \/ Len(invoice.items) = 0
     \/ \E i \in 1..Len(invoice.items) :
          \/ invoice.items[i].hs_code = ""
          \/ invoice.items[i].quantity <= 0
          \/ invoice.items[i].total_value <= 0

\* C26: validate_invoice returns valid = false with a non-empty error list
\* whenever a hard error holds (no buyer province, no sale-origination province,
\* no company tax id, no line item - with the error "At least one item is
\* required ..." -, an item without HS code or with quantity <= 0 or
\* total_value <= 0), valid is true exactly when the error list is empty, and
\* submit_invoice sends no invoice with a hard error.
C26_ValidatorHardErrors ==
  \A d \in Docs :
    LET v == validate_invoice(d)
    IN /\ HardError(d) => (~v.valid /\ Len(v.errors) > 0)
       /\ Len(invoices[d].items) = 0 =>
            \E i \in 1..Len(v.errors) :
               v.errors[i] = "At least one item is required for FBR submission"
       /\ v.valid <=> Len(v.errors) = 0
       /\ (gui.pc = "http" /\ gui.invoice_id = d) => ~HardError(d)

\* C26 witness: submit_invoice has returned the validator's error for an
\* invoice without line items
C26_Witness ==
  /\ gui.pc = "return"
  /\ gui.invoice_id = 1
  /\ Len(invoices[1].items) = 0
  /\ gui.result.error = "Validation failed"
  /\ gui.result.errors = <<"At least one item is required for FBR submission">>

\* the only defects of invoice d are warning conditions
OnlyWarnings(d) ==
  LET invoice == invoices[d]
  IN /\ ~HardError(d)
     /\ invoice.buyer_name # ""
     /\ company.name # ""
     /\ \A i \in 1..Len(invoice.items) : invoice.items[i].uom # ""

\* C27: an invoice whose only defects are warning conditions (an item without
\* tax rate, a Registered buyer without tax id, a posting date far from today)
\* validates with valid = true and an empty error list, the warnings listed.
C27_WarningsDoNotBlock ==
  \A d \in Docs :
    OnlyWarnings(d) =>
      LET v == validate_invoice(d)
          invoice == invoices[d]
      IN /\ v.valid
         /\ v.errors = <<>>
         /\ (invoice.buyer_ntn_cnic = "" /\ invoice.buyer_type = "Registered") =>
              Len(v.warnings) > 0
         /\ invoice.date_offset_days > 3 => Len(v.warnings) > 0

\* C28: submit_invoice on an invoice the validator accepts fails with the
\* configuration error, without an HTTP call, whenever the company's FBRSettings
\* row is absent or lacks the api endpoint or the authorization token.
C28_ConfigurationError ==
  [][(/\ DirectCallStarts
      /\ validate_invoice(gui'.invoice_id).valid
      /\ settings \in {"absent", "no_endpoint", "no_token"}) =>
       /\ gui'.pc = "return"
       /\ ~gui'.result.success
       /\ gui'.result.error = "FBR API settings not configured for this company"]_vars

\* a payload has been built for an invoice
PayloadBuilt == gui.pc = "built" /\ ~IsRaised(gui.result)
AbsoluteValue(x) == IF x < 0 THEN 0 - x ELSE x

\* C29: in the built payload buyerRegistrationType is "Registered" if and only
\* if the invoice's buyer NTN/CNIC is non-empty and "Unregistered" otherwise,
\* whatever buyer type is stored.
C29_RegistrationTypeDerived ==
  PayloadBuilt =>
    gui.result.buyerRegistrationType =
      (IF invoices[gui.invoice_id].buyer_ntn_cnic # "" THEN "Registered"
       ELSE "Unregistered")

\* C30: for every line item the payload's discount is the absolute value of the
\* stored discount, hence never negative.
C30_DiscountAbsolute ==
  PayloadBuilt =>
    \A i \in 1..Len(gui.result.items) :
      /\ gui.result.items[i].discount =
           AbsoluteValue(invoices[gui.invoice_id].items[i].discount)
      /\ gui.result.items[i].discount >= 0

\* NULL (the empty text) and the three verdicts recorded for an invoice
DocumentedFbrStatuses == {"", "Valid", "Invalid", "Error"}

\* C31: in every reachable state the fbr_status of every invoice is NULL,
\* "Valid", "Invalid" or "Error", whatever body the gateway returned
C31_FbrStatusDocumented ==
  \A d \in DOMAIN invoices : invoices[d].fbr_status \in DocumentedFbrStatuses

\* C32: while retry_failed_items is not called, process_queue calls
\* submit_invoice for a queue item at most max_retries times, whatever
\* add_to_queue and process_queue calls are made and however the gateway fails
C32_SubmissionsBounded ==
  \A r \in queue : submissions[r.id] <= r.max_retries

\* C33: when process_queue is called repeatedly and retry_failed_items is not,
\* every Pending queue item eventually becomes Completed or Failed, also when
\* add_to_queue is called again for its document in between
C33_PendingEventuallySettled ==
  \A id \in 1..MaxRows :
    (HasRow(id) /\ Row(id).status = "Pending")
      ~> (HasRow(id) /\ Row(id).status \in {"Completed", "Failed"})

\* a row left in Processing by a batch that no longer runs
Interrupted(id) ==
  /\ HasRow(id)
  /\ Row(id).status = "Processing"
  /\ \A w \in Workers : threads[w].pc = "idle"

\* C34: a queue item left in Processing by a batch that stopped between the
\* mark-Processing commit and the outcome commit is later moved to Pending,
\* Completed or Failed by process_queue, retry_failed_items or add_to_queue
C34_InterruptedRecovered ==
  \A id \in 1..MaxRows :
    Interrupted(id) ~> (HasRow(id) /\ Row(id).status \in {"Pending", "Completed", "Failed"})

\* the batch of worker w ends in this step while it was handling an item
BatchEndsAtItem(w) ==
  /\ threads[w].pc \in {"mark", "submit", "http", "outcome"}
  /\ threads'[w].pc = "return"
  /\ HasRow(Head(threads[w].items))

\* C35: when process_queue returns, no item it selected is left in Processing:
\* each is Completed, Pending or Failed, also after an exception inside the loop
C35_NoneLeftProcessing ==
  [][\A w \in Workers :
       BatchEndsAtItem(w) =>
         RowIn(queue', Head(threads[w].items)).status \in {"Completed", "Pending", "Failed"}]_vars

\* C36: every item that a retry_failed_items(m) call returns to Pending has
\* retry_count < max_retries, so the next candidate query selects it
C36_RetriedIsEligible ==
  [][\A r \in queue :
       (r.status = "Failed" /\ HasRow(r.id)') =>
         LET r2 == RowIn(queue', r.id)
         IN r2.status = "Pending" => r2.retry_count < r2.max_retries]_vars

\* row a has the higher priority under the convention of the priority column:
\* the lower number
HigherPriority(a, b) == a.priority < b.priority

\* C37: enqueue and drain follow one priority convention, lower number = higher
\* priority: a duplicate add_to_queue never gives the existing item a lower
\* priority than it had, and a process_queue batch holds an item of higher
\* priority before an item of lower priority
C37_PriorityConsistent ==
  [][/\ \A r \in queue :
          HasRow(r.id)' => ~HigherPriority(r, RowIn(queue', r.id))
     /\ \A w \in Workers :
          (threads[w].pc = "idle" /\ threads'[w].pc # "idle") =>
            LET L == threads'[w].items
            IN \A i, j \in 1..Len(L) :
                 i < j => ~HigherPriority(Row(L[j]), Row(L[i]))]_vars

\* C38: an operation of the queue manager or the submission service of one
\* company never changes a queue item or an invoice of another company, and a
\* queue item whose document_id names an invoice of another company fails
\* without a call of the gateway
C38_CompanyIsolation ==
  [][/\ \A r \in queue : r.company_id # CompanyId => r \in queue'
     /\ \A d \in DOMAIN invoices :
          invoices[d].company_id # CompanyId => invoices'[d] = invoices[d]
     /\ \A d \in DOMAIN invoices :
          (DirectPosts(d) \/ \E w \in Workers : WorkerPosts(w, d)) =>
            invoices[d].company_id = CompanyId
     /\ \A w \in Workers :
          (/\ threads[w].pc = "submit"
           /\ threads'[w].pc # "submit"
           /\ HasRow(Head(threads[w].items))
           /\ invoices[HeadRow(w).document_id].company_id # CompanyId) =>
            /\ threads'[w].pc = "outcome"
            /\ ~threads'[w].result.success]_vars

\* C38 witness: an item of the company that names the other company's invoice
\* has failed in validation, and the other company's row and invoice are as
\* they were at the start
C38_Witness ==
  /\ \E r \in queue : /\ r.company_id = CompanyId
                       /\ invoices[r.document_id].company_id = OtherCompanyId
                       /\ r.retry_count > 0
                       /\ submissions[r.id] > 0
                       /\ Len(r.error_message) > 0
                       /\ r.error_message[1] = "Validation failed"
  /\ \E r \in queue : \E status \in {"Pending", "Failed", "Completed"} :
       r = OtherCompanyRow(r.id, status)
  /\ invoices[2] = [ValidInvoice EXCEPT !.company_id = OtherCompanyId]
  /\ fbr_logs = EmptyBag

====
